---- MODULE Spec2Model ----
(***************************************************************************)
(* A model of labview_automation: the LabVIEW process-lifecycle controller *)
(* (labview.py: LabVIEW, LabVIEWHelpers) and the TCP client of the         *)
(* listener (client.py: LabVIEWClient).                                    *)
(*                                                                         *)
(* Spec        the lifecycle controller over an operating-system process   *)
(*             table, a listener that accepts or refuses connections, and  *)
(*             a clock.                                                    *)
(* SpecClient  one LabVIEWClient: its session and its calls, the listener  *)
(*             answering each request with a document of its choice.       *)
(* SpecWire    one frame: written by _send_dict, carried by a transport    *)
(*             that delivers a prefix of it in pieces and then closes,     *)
(*             read by _recv_dict.                                         *)
(***************************************************************************)
EXTENDS Integers, Sequences, FiniteSets, TLC

(***************************************************************************)
(* Bounds of the model.                                                    *)
(***************************************************************************)
\* Process ids of the host are 1..MaxPid.
MaxPid == 2
\* The clock runs from 0 to MaxTime.
MaxTime == 2
\* timeout_s arguments are drawn from 0..MaxTimeout.
MaxTimeout == 1
\* Connection attempts counted per operation.
MaxAttempts == 2

\* self._pid = None (labview.py:129); pids are 1..MaxPid.
None == 0
\* kill(timeout_s=None) (labview.py:318): wait without a time limit.
NoTimeout == -1

Pids == 1..MaxPid

(***************************************************************************)
(* Executable paths.  A path is its directory and its file name; lower()   *)
(* is modelled on each component by a table of the strings that occur.     *)
(***************************************************************************)
LowerStr(s) ==
    CASE s = "C:\\LV"      -> "c:\\lv"
      [] s = "C:\\LV2"     -> "c:\\lv2"
      [] s = "LabVIEW.exe" -> "labview.exe"
      [] OTHER             -> s

Lower(path) == [dir |-> LowerStr(path.dir), name |-> LowerStr(path.name)]

\* LabVIEW.executable: os.path.join(self.path, "LabVIEW.exe").
executable == [dir |-> "C:\\LV", name |-> "LabVIEW.exe"]

\* What the host can report as the executable of a process: the tracked
\* executable, the same file reported in another case, and another LabVIEW
\* installation (same process name, different directory).
ExePaths ==
    { executable,
      [dir |-> "c:\\lv",  name |-> "labview.exe"],
      [dir |-> "C:\\LV2", name |-> "LabVIEW.exe"] }

NoProc == [state |-> "none", exe |-> [dir |-> "", name |-> ""]]

\* A process table entry: no such process, or a running process.  A handle
\* psutil.Process(pid) is built and asked in one step, so that a process
\* found is a process that reports itself running.
ProcEntries ==
    {NoProc} \cup [state : {"running"}, exe : ExePaths]

VARIABLES
    procs,        \* the host's process table: pid -> entry
    listening,    \* whether the listener accepts TCP connections
    clock,        \* time.time(), measured from the entry of the wait
    server_cfg,   \* LabVIEW._server_cfg (read-only after construction)
    _pid,         \* LabVIEW._pid
    pc,           \* "idle", or "waiting" inside wait_until_server_loaded
    caller,       \* the operation that entered the wait: "start" / "restart"
    start_time,   \* local of wait_until_server_loaded
    timeout_s,    \* argument of wait_until_server_loaded
    last,         \* the action of the last step
    result,       \* what the last operation of the caller returned or raised
    spawned,      \* pids start_process created during the last operation
    killed,       \* pids proc.kill() was called on during the last operation
    attempts,     \* socket connect() calls of the last operation (to MaxAttempts)
    opened,       \* connections the last operation established
    closed,       \* connections the last operation closed
    cmdline,      \* the argument list the last operation gave start_process
    \* LabVIEWClient, at the level of documents (SpecClient)
    connection,   \* self.connection: "unset", "open" or "closed"
    rpc_result,   \* what the last call on the client returned or raised
    exchanges,    \* the documents the last call wrote and read, in order
    open_sockets, \* sockets __enter__ created that nothing has closed yet
    \* one frame on the wire, at the level of bytes (SpecWire)
    msg,          \* the mapping handed to _send_dict
    written,      \* the bytes connection.send took (its return value)
    stream,       \* the bytes the transport still delivers before it closes
    wpc,          \* the position in _send_dict / _recv_dict
    packet,       \* _recv_dict's packet
    packet_size_int, \* _recv_dict's packet_size_int
    decoded       \* what _recv_dict returned or raised

lifeVars == <<procs, listening, clock, server_cfg, _pid, pc, caller, start_time,
              timeout_s, last, result, spawned, killed, attempts, opened, closed,
              cmdline>>
clientVars == <<connection, rpc_result, exchanges, open_sockets>>
wireVars == <<msg, written, stream, wpc, packet, packet_size_int, decoded>>

vars == <<lifeVars, clientVars, wireVars>>

envVars == <<procs, listening, clock>>
waitVars == <<pc, caller, start_time, timeout_s>>
obsVars == <<spawned, killed, attempts, opened, closed, cmdline>>

Res(op, outcome, ret) == [op |-> op, outcome |-> outcome, ret |-> ret]

(***************************************************************************)
(* LabVIEWHelpers: process lookup over a process table P.                  *)
(***************************************************************************)
\* A lookup by pid alone, trusting that the pid still is the process launched.
_get_process_by_pid(P, pid, exe) ==
    IF pid = None THEN None
    ELSE IF P[pid].state = "none" THEN None
    ELSE pid

\* The handle of the matched process (its pid), or None.
_get_process(P, pid, exe) ==
    IF pid = None THEN None
    ELSE IF P[pid].state = "none" THEN None          \* psutil.NoSuchProcess
    ELSE IF Lower(P[pid].exe) = Lower(exe) THEN pid
    ELSE None

process_is_running(P, pid, exe) ==
    LET proc == _get_process(P, pid, exe)
    IN  IF proc = None THEN FALSE ELSE P[proc].state = "running"

get_process_memory_usage(P, pid, exe) ==
    LET proc == _get_process(P, pid, exe)
    IN  IF proc = None THEN "0" ELSE "rss"

\* LabVIEW.is_running over a process table and a tracked pid.
is_running(P, pid) == process_is_running(P, pid, executable)

\* A client() that does not look at server_cfg.start.
client_unconfigured(P, pid) ==
    IF ~is_running(P, pid) THEN "NotStartedError" ELSE "LabVIEWClient"

\* A client() that does not ask whether the process is running.
client_unchecked(P, pid) ==
    IF ~server_cfg.start THEN "NotStartedError" ELSE "LabVIEWClient"

\* LabVIEW.client: the exception it raises, or "LabVIEWClient".
client(P, pid) ==
    IF ~is_running(P, pid) THEN "NotStartedError"
    ELSE IF ~server_cfg.start THEN "NotStartedError"
    ELSE "LabVIEWClient"

\* The pids a kill_process call sends proc.kill() to.
kill_targets(P, pid, exe) ==
    LET proc == _get_process(P, pid, exe)
    IN  IF proc = None THEN {} ELSE {proc}

\* psutil.process_iter in start_with_args: the last process named
\* "LabVIEW.exe" in pid order, or the pid tracked so far.
LabVIEWNamed(P) == {p \in Pids : P[p].state # "none" /\ P[p].exe.name = "LabVIEW.exe"}

MaxOf(S) == CHOOSE x \in S : \A y \in S : y <= x

adopt(P, pid) == IF LabVIEWNamed(P) = {} THEN pid ELSE MaxOf(LabVIEWNamed(P))

FreePids(P) == {p \in Pids : P[p].state = "none"}

\* The executable the host reports for a process spawned from `executable`.
SpawnExes == {e \in ExePaths : Lower(e) = Lower(executable)}

(***************************************************************************)
(* The command line of a launch.                                           *)
(***************************************************************************)
\* A path argument of the constructor left at None.
NoPath == "None"

\* str() of a natural number.
Digit(d) ==
    CASE d = 0 -> "0" [] d = 1 -> "1" [] d = 2 -> "2" [] d = 3 -> "3" [] d = 4 -> "4"
      [] d = 5 -> "5" [] d = 6 -> "6" [] d = 7 -> "7" [] d = 8 -> "8" [] d = 9 -> "9"

RECURSIVE Str(_)
Str(n) == IF n < 10 THEN Digit(n) ELSE Str(n \div 10) \o Digit(n % 10)

\* os.path.join(dir, name) on the host of LabVIEW.exe.
PathText(e) == e.dir \o "\\" \o e.name

\* The file create_temp_ini wrote, and the listener VI.
ini_file == "tmp.ini"
server_vi_path == "Splash Screen.vi"

\* The optional pair of arguments for a path that may be None.
OptionalArg(flag, value) == IF value # NoPath THEN <<flag, value>> ELSE <<>>

\* The arguments of the listener without the '--' that ends LabVIEW's own.
server_args_unseparated(cfg) ==
    <<server_vi_path, "-pref", ini_file,
      "--port", Str(cfg.port), "--timeout", Str(cfg.tcp_timeout_s * 1000)>>
    \o OptionalArg("--reportfile", cfg.log_path)
    \o OptionalArg("--errorfile", cfg.error_log_path)

\* args of LabVIEW.start with the server enabled.
server_args(cfg) ==
    <<server_vi_path, "-pref", ini_file, "--",
      "--port", Str(cfg.port), "--timeout", Str(cfg.tcp_timeout_s * 1000)>>
    \o OptionalArg("--reportfile", cfg.log_path)
    \o OptionalArg("--errorfile", cfg.error_log_path)

\* run_args of start_with_args.
run_args(args) == <<PathText(executable)>> \o args

\* The argument list of LabVIEW.start with the server disabled.
plain_args == <<PathText(executable), "-pref", ini_file>>

\* The server configurations: the constructor's defaults but for
\* start_with_server, and those with the other arguments given.
DefaultConfigs ==
    [start : BOOLEAN, port : {2552}, log_path : {NoPath},
     error_log_path : {NoPath}, tcp_timeout_s : {60}]

LaunchConfigs ==
    [start : BOOLEAN, port : {2552, 80}, log_path : {NoPath, "r.log"},
     error_log_path : {NoPath, "e.log"}, tcp_timeout_s : {60, 1}]

(***************************************************************************)
(* Initial state: a constructed LabVIEW object, nothing launched by it.    *)
(***************************************************************************)
\* The lifecycle actions leave the client and the wire alone.
LifeFrame == UNCHANGED <<clientVars, wireVars>>

LifeStart(configs) ==
    /\ procs = [p \in Pids |-> NoProc]
    /\ listening = FALSE
    /\ clock = 0
    /\ server_cfg \in configs
    /\ _pid = None
    /\ pc = "idle"
    /\ caller = "none"
    /\ start_time = 0
    /\ timeout_s = 0
    /\ last = "Init"
    /\ result = Res("init", "ok", "None")
    /\ spawned = {}
    /\ killed = {}
    /\ attempts = 0
    /\ opened = 0
    /\ closed = 0
    /\ cmdline = <<>>

LifeInit == LifeStart(DefaultConfigs)

(***************************************************************************)
(* LabVIEW.start from the process table P and tracked pid p0 (those of the *)
(* state for start itself, those after the kill for restart).  kset: the   *)
(* pids already killed by the calling operation.                           *)
(***************************************************************************)
\* start when not is_running(): the launch (start_with_args with the server
\* arguments, or start_process), then the optional wait.
StartLaunch(P, p0, kset, op, wait_until_open, T) ==
    \E np \in FreePids(P), e \in SpawnExes :
       /\ procs' = [P EXCEPT ![np] = [state |-> "running", exe |-> e]]
       /\ spawned' = {np}
       /\ attempts' = 0
       /\ opened' = 0
       /\ closed' = 0
       /\ cmdline' = IF server_cfg.start THEN run_args(server_args(server_cfg))
                     ELSE plain_args
       /\ IF server_cfg.start
          THEN /\ _pid' = IF adopt(P, p0) = None THEN np ELSE adopt(P, p0)
               /\ IF wait_until_open
                  THEN /\ pc' = "waiting"
                       /\ caller' = op
                       /\ start_time' = clock
                       /\ timeout_s' = T
                       /\ result' = Res(op, "waiting", "None")
                  ELSE /\ UNCHANGED waitVars
                       /\ result' = Res(op, "ok", "None")
          ELSE /\ _pid' = np
               /\ UNCHANGED waitVars
               /\ result' = Res(op, "ok", "None")

\* A start that launches although the instance is running.
StartRunning_relaunch(P, p0, kset, op, wait_until_open, T) ==
    StartLaunch(P, p0, kset, op, wait_until_open, T)

\* start when is_running(): with the server, one `with self.client(): pass`
\* (client() finds the process running and the server enabled); return.
StartRunning(P, p0, kset, op, wait_until_open, T) ==
    /\ procs' = P
    /\ _pid' = p0
    /\ spawned' = {}
    /\ cmdline' = <<>>
    /\ UNCHANGED waitVars
    /\ IF server_cfg.start
       THEN /\ attempts' = 1
            /\ opened' = IF listening THEN 1 ELSE 0
            /\ closed' = IF listening THEN 1 ELSE 0
            /\ result' = Res(op, IF listening THEN "ok" ELSE "ConnectionError", "None")
       ELSE /\ attempts' = 0
            /\ opened' = 0
            /\ closed' = 0
            /\ result' = Res(op, "ok", "None")

StartFrom(P, p0, kset, op, wait_until_open, T) ==
    /\ listening' = listening
    /\ clock' = clock
    /\ server_cfg' = server_cfg
    /\ killed' = kset
    /\ IF is_running(P, p0)
       THEN StartRunning(P, p0, kset, op, wait_until_open, T)
       ELSE StartLaunch(P, p0, kset, op, wait_until_open, T)

Start ==
    /\ LifeFrame
    /\ pc = "idle"
    /\ \E wait_until_open \in BOOLEAN, T \in 0..MaxTimeout :
          StartFrom(procs, _pid, {}, "start", wait_until_open, T)
    /\ last' = "Start"

(***************************************************************************)
(* One iteration of the loop of wait_until_server_loaded.                  *)
(***************************************************************************)
\* A timeout that fires as soon as timeout_s is reached.
TimedOut_reached(now, t0, T) == now - t0 >= T

\* A timeout that never fires.
TimedOut_never(now, t0, T) == FALSE

\* time.time() - start_time > timeout_s
TimedOut(now, t0, T) == now - t0 > T

\* wait_until_server_loaded is left: its locals are gone, and the clock,
\* which nothing reads outside the wait, is measured from the next wait.
\* One more connect() call; the calls are counted up to MaxAttempts.
Counted(n) == IF n < MaxAttempts THEN n + 1 ELSE n

WaitReturns ==
    /\ pc' = "idle"
    /\ caller' = "none"
    /\ start_time' = 0
    /\ timeout_s' = 0
    /\ clock' = 0

Probe ==
    /\ LifeFrame
    /\ pc = "waiting"
    /\ last' = "Probe"
    /\ UNCHANGED <<procs, listening, server_cfg, _pid, spawned, killed, cmdline>>
    /\ IF client(procs, _pid) = "LabVIEWClient" /\ listening
       THEN \* connected and closed: waiting = False
            /\ attempts' = Counted(attempts)
            /\ opened' = opened + 1
            /\ closed' = closed + 1
            /\ result' = Res(caller, "ok", "None")
            /\ WaitReturns
       ELSE \* client() or connect() raised: except Exception
            /\ attempts' = IF client(procs, _pid) = "LabVIEWClient"
                           THEN Counted(attempts) ELSE attempts
            /\ UNCHANGED <<opened, closed>>
            /\ IF TimedOut(clock, start_time, timeout_s)
               THEN /\ result' = Res(caller, "TimeoutError", "None")
                    /\ WaitReturns
               ELSE /\ UNCHANGED <<waitVars, clock>>
                    /\ result' = Res(caller, "waiting", "None")

(***************************************************************************)
(* LabVIEW.kill: kill_process, then self._pid = None.  proc.wait(timeout)  *)
(* returns when the process has gone, or raises psutil.TimeoutExpired when *)
(* a timeout was given and the process is still there.                     *)
(***************************************************************************)
WaitOutcomes(T) == IF T = NoTimeout THEN {"exited"} ELSE {"exited", "TimeoutExpired"}

\* The process table after proc.kill() and proc.wait(T) ended with `out`.
AfterKill(P, targets, out) ==
    IF out = "exited" THEN [p \in Pids |-> IF p \in targets THEN NoProc ELSE P[p]]
    ELSE P

\* The tracked pid after LabVIEW.kill ended with `out`.
PidAfterKill(pid, out) == IF out = "TimeoutExpired" THEN pid ELSE None

Kill ==
    /\ LifeFrame
    /\ pc = "idle"
    /\ last' = "Kill"
    /\ \E T \in {NoTimeout} \cup (0..MaxTimeout) :
       LET targets == kill_targets(procs, _pid, executable)
       IN  \E out \in IF targets = {} THEN {"exited"} ELSE WaitOutcomes(T) :
           /\ procs' = AfterKill(procs, targets, out)
           /\ killed' = targets
           /\ _pid' = PidAfterKill(_pid, out)
           /\ result' = Res("kill", IF out = "exited" THEN "ok" ELSE out, "None")
    /\ spawned' = {}
    /\ cmdline' = <<>>
    /\ attempts' = 0
    /\ opened' = 0
    /\ closed' = 0
    /\ UNCHANGED <<listening, clock, server_cfg, waitVars>>

(***************************************************************************)
(* LabVIEW.restart: if running, kill(timeout_s); then start.               *)
(***************************************************************************)
Restart ==
    /\ LifeFrame
    /\ pc = "idle"
    /\ last' = "Restart"
    /\ \E wait_until_open \in BOOLEAN, T \in 0..MaxTimeout :
       IF is_running(procs, _pid)
       THEN LET targets == kill_targets(procs, _pid, executable)
            IN  \E out \in WaitOutcomes(T) :
                IF PidAfterKill(_pid, out) = None
                THEN StartFrom(AfterKill(procs, targets, out), None, targets,
                               "restart", wait_until_open, T)
                ELSE \* kill raised: start is not reached
                     /\ procs' = AfterKill(procs, targets, out)
                     /\ killed' = targets
                     /\ _pid' = PidAfterKill(_pid, out)
                     /\ result' = Res("restart", out, "None")
                     /\ spawned' = {}
                     /\ cmdline' = <<>>
                     /\ attempts' = 0
                     /\ opened' = 0
                     /\ closed' = 0
                     /\ UNCHANGED <<listening, clock, server_cfg, waitVars>>
       ELSE StartFrom(procs, _pid, {}, "restart", wait_until_open, T)

(***************************************************************************)
(* The read-only operations.                                               *)
(***************************************************************************)
\* A read-only operation that forgets a pid it finds not running.
Query_untracking(name, res) ==
    /\ LifeFrame
    /\ pc = "idle"
    /\ last' = name
    /\ result' = res
    /\ spawned' = {}
    /\ cmdline' = <<>>
    /\ killed' = {}
    /\ attempts' = 0
    /\ opened' = 0
    /\ closed' = 0
    /\ _pid' = IF is_running(procs, _pid) THEN _pid ELSE None
    /\ UNCHANGED <<envVars, server_cfg, waitVars>>

Query(name, res) ==
    /\ LifeFrame
    /\ pc = "idle"
    /\ last' = name
    /\ result' = res
    /\ spawned' = {}
    /\ cmdline' = <<>>
    /\ killed' = {}
    /\ attempts' = 0
    /\ opened' = 0
    /\ closed' = 0
    /\ UNCHANGED <<envVars, server_cfg, _pid, waitVars>>

Client ==
    Query("Client",
          LET c == client(procs, _pid)
          IN  IF c = "LabVIEWClient" THEN Res("client", "ok", c)
              ELSE Res("client", c, "None"))

IsRunning ==
    Query("IsRunning",
          Res("is_running", "ok", IF is_running(procs, _pid) THEN "True" ELSE "False"))

MemoryUsage ==
    Query("MemoryUsage",
          Res("memory_usage", "ok", get_process_memory_usage(procs, _pid, executable)))

(***************************************************************************)
(* The environment: processes exit and appear (a launch from               *)
(* outside, or a pid reused by another program); the listener comes up and *)
(* goes down; time passes while the caller waits.                          *)
(***************************************************************************)
EnvFrame == /\ LifeFrame
            /\ last' = "Env"
            /\ UNCHANGED <<server_cfg, _pid, waitVars, result, obsVars>>

ProcExit ==
    /\ \E p \in Pids :
          /\ procs[p].state # "none"
          /\ procs' = [procs EXCEPT ![p] = NoProc]
    /\ UNCHANGED <<listening, clock>>
    /\ EnvFrame

ProcAppear ==
    /\ \E p \in FreePids(procs), e \in ExePaths :
          procs' = [procs EXCEPT ![p] = [state |-> "running", exe |-> e]]
    /\ UNCHANGED <<listening, clock>>
    /\ EnvFrame

ListenerToggle ==
    /\ listening' = ~listening
    /\ UNCHANGED <<procs, clock>>
    /\ EnvFrame

Tick ==
    /\ pc = "waiting"
    /\ clock < MaxTime
    /\ clock' = clock + 1
    /\ UNCHANGED <<procs, listening>>
    /\ EnvFrame

Next ==
    \/ Start
    \/ Probe
    \/ Kill
    \/ Restart
    \/ Client
    \/ IsRunning
    \/ MemoryUsage
    \/ ProcExit
    \/ ProcAppear
    \/ ListenerToggle
    \/ Tick

(***************************************************************************)
(* LabVIEWClient at the level of documents.  A document is a function from *)
(* its keys to their values.                                               *)
(***************************************************************************)
Empty == [k \in {} |-> 0]

\* The sockets a client may hold open at once in the model.
MaxSockets == 2

\* A key that is absent, or present with one of the values V.
Opt(k, V) == {Empty} \cup {k :> v : v \in V}

\* What the listener may answer to run_vi, set_controls and get_indicators.
Responses ==
    { s @@ c @@ r @@ o :
        s \in Opt("RunVIState_Status", BOOLEAN),
        c \in Opt("RunVIState_Code", {42, 7}),
        r \in Opt("RunVIState_Source", {"X"}),
        o \in Opt("out", {"v"}) }

\* What the listener may answer to describe_error.
DescribeResponses ==
    { m @@ s : m \in Opt("msg", {"m1", "m2"}),
               s \in Opt("RunVIState_Status", {TRUE}) }

Sent(doc) == [dir |-> "send", doc |-> doc]
Received(doc) == [dir |-> "recv", doc |-> doc]

RpcRes(op, outcome, value, text, error) ==
    [op |-> op, outcome |-> outcome, value |-> value, text |-> text, error |-> error]

\* The message of describe_error.
describe_request(error) == [command |-> "describe_error", error |-> error]

\* How the socket serves one _send_dict / _recv_dict pair: both work, send
\* raises, or send works and recv raises.
IoOutcomes == {"ok", "send_fails", "recv_fails"}

\* A pair that writes the request again and reads once more when the read
\* failed.
exchange_retry(request, resp, io) ==
    [log    |-> IF io = "send_fails" THEN <<>>
                ELSE IF io = "recv_fails"
                THEN <<Sent(request), Sent(request), Received(resp)>>
                ELSE <<Sent(request), Received(resp)>>,
     raised |-> IF io = "send_fails" THEN "socket.error" ELSE "none"]

\* self._send_dict(msg); return_vals = self._recv_dict(): the documents
\* written and read, and the exception of the socket call that failed.
exchange(request, resp, io) ==
    [log    |-> IF io = "send_fails" THEN <<>>
                ELSE IF io = "recv_fails" THEN <<Sent(request)>>
                ELSE <<Sent(request), Received(resp)>>,
     raised |-> IF io = "ok" THEN "none" ELSE "socket.error"]

\* A describe_error that checks the status of its own response first.
describe_error_checked(error, dresp, io) ==
    LET x == exchange(describe_request(error), dresp, io)
    IN  [log     |-> x.log,
         outcome |-> IF x.raised # "none" THEN x.raised
                     ELSE IF "RunVIState_Status" \in DOMAIN dresp THEN "Error"
                     ELSE IF "msg" \in DOMAIN dresp THEN "returned" ELSE "KeyError",
         text    |-> IF x.raised = "none" /\ "msg" \in DOMAIN dresp
                        /\ "RunVIState_Status" \notin DOMAIN dresp
                     THEN dresp["msg"] ELSE ""]

\* describe_error(error) when the listener answers dresp: what it writes and
\* reads, and the 'msg' it returns, the KeyError of return_vals['msg'] or
\* the exception of the socket.
describe_error(error, dresp, io) ==
    LET x == exchange(describe_request(error), dresp, io)
    IN  [log     |-> x.log,
         outcome |-> IF x.raised # "none" THEN x.raised
                     ELSE IF "msg" \in DOMAIN dresp THEN "returned" ELSE "KeyError",
         text    |-> IF x.raised = "none" /\ "msg" \in DOMAIN dresp
                     THEN dresp["msg"] ELSE ""]

\* The raise of _check_for_error: the Error built from the response and from
\* the answer dresp to the describe_error it sends (or the KeyError of a
\* missing key), and what was written and read meanwhile.
status_error(return_dict, dresp, io) ==
    IF \/ "RunVIState_Code" \notin DOMAIN return_dict
       \/ "RunVIState_Source" \notin DOMAIN return_dict
    THEN [raised |-> "KeyError", error |-> Empty, log |-> <<>>]
    ELSE LET error == [code   |-> return_dict["RunVIState_Code"],
                       status |-> return_dict["RunVIState_Status"],
                       source |-> return_dict["RunVIState_Source"]]
             d == describe_error(error, dresp, io)
         IN  IF d.outcome = "returned"
             THEN [raised |-> "Error",
                   error  |-> [code    |-> return_dict["RunVIState_Code"],
                               source  |-> return_dict["RunVIState_Source"],
                               message |-> d.text],
                   log    |-> d.log]
             ELSE [raised |-> d.outcome, error |-> Empty, log |-> d.log]

NoError == [raised |-> "none", error |-> Empty, log |-> <<>>]

\* A check that reads the status without asking whether it is there.
_check_for_error_unguarded(return_dict, dresp, io) ==
    IF "RunVIState_Status" \notin DOMAIN return_dict
    THEN [raised |-> "KeyError", error |-> Empty, log |-> <<>>]
    ELSE IF return_dict["RunVIState_Status"]
    THEN status_error(return_dict, dresp, io)
    ELSE NoError

\* A check that raises the listener's code and source as they came, without
\* the describe_error exchange.
_check_for_error_undescribed(return_dict, dresp, io) ==
    IF "RunVIState_Status" \notin DOMAIN return_dict
    THEN NoError
    ELSE IF return_dict["RunVIState_Status"]
    THEN IF \/ "RunVIState_Code" \notin DOMAIN return_dict
            \/ "RunVIState_Source" \notin DOMAIN return_dict
         THEN [raised |-> "KeyError", error |-> Empty, log |-> <<>>]
         ELSE [raised |-> "Error",
               error  |-> [code    |-> return_dict["RunVIState_Code"],
                           source  |-> return_dict["RunVIState_Source"],
                           message |-> ""],
               log    |-> <<>>]
    ELSE NoError

\* _check_for_error(return_dict), the listener answering dresp to the
\* describe_error it may send: the exception raised ("none": it returns),
\* the Error's fields, and what was written and read meanwhile.
_check_for_error(return_dict, dresp, io) ==
    IF "RunVIState_Status" \notin DOMAIN return_dict
    THEN NoError
    ELSE IF return_dict["RunVIState_Status"]
    THEN status_error(return_dict, dresp, io)
    ELSE NoError

\* The messages of the three calls that check the status.
run_vi_request(vi_path, control_values, run_options, open_frontpanel, indicator_names) ==
    [command |-> "run_vi", vi_path |-> vi_path, run_options |-> run_options,
     open_frontpanel |-> open_frontpanel, control_values |-> control_values,
     indicator_names |-> indicator_names]

set_controls_request(project_path, target_name, vi_path, control_values, ignore) ==
    [command |-> "set_controls", project_path |-> project_path,
     target_name |-> target_name, vi_path |-> vi_path,
     control_values |-> control_values, ignore_nonexistent_controls |-> ignore]

get_indicators_request(project_path, target_name, vi_path, indicator_names) ==
    [command |-> "get_indicators", project_path |-> project_path,
     target_name |-> target_name, vi_path |-> vi_path,
     indicator_names |-> indicator_names]

\* The calls on a client leave the lifecycle and the wire alone.
ClientFrame == UNCHANGED <<lifeVars, wireVars>>

\* _send_dict on a client that never connected reads an attribute that
\* __init__ does not set; on a closed socket send raises.
Unusable(op) ==
    /\ connection # "open"
    /\ rpc_result' = RpcRes(op, IF connection = "unset" THEN "AttributeError"
                                ELSE "socket.error", Empty, "", Empty)
    /\ exchanges' = <<>>
    /\ UNCHANGED <<connection, open_sockets>>

\* The body shared by run_vi_synchronous, set_controls and get_indicators:
\* _send_dict(msg); return_vals = _recv_dict(); _check_for_error; return.
Call(op, request) ==
    \/ Unusable(op)
    \/ /\ connection = "open"
       /\ \E resp \in Responses, dresp \in DescribeResponses, io, dio \in IoOutcomes :
          LET x == exchange(request, resp, io)
              chk == IF x.raised # "none"
                     THEN [raised |-> x.raised, error |-> Empty, log |-> <<>>]
                     ELSE _check_for_error(resp, dresp, dio)
          IN  /\ exchanges' = x.log \o chk.log
              /\ rpc_result' =
                    IF chk.raised = "none"
                    THEN RpcRes(op, "returned", resp, "", Empty)
                    ELSE RpcRes(op, chk.raised, Empty, "", chk.error)
       /\ UNCHANGED <<connection, open_sockets>>

RunViSynchronous ==
    /\ ClientFrame
    /\ \E control_values \in {Empty, "x" :> 1} :
          Call("run_vi_synchronous",
               run_vi_request("a.vi", control_values, 0, FALSE, <<>>))

SetControls ==
    /\ ClientFrame
    /\ \E ignore \in BOOLEAN :
          Call("set_controls",
               set_controls_request("p.lvproj", "My Computer", "a.vi", "x" :> 1, ignore))

GetIndicators ==
    /\ ClientFrame
    /\ Call("get_indicators",
            get_indicators_request("p.lvproj", "My Computer", "a.vi", <<"out">>))

DescribeError ==
    /\ ClientFrame
    /\ \/ Unusable("describe_error")
       \/ /\ connection = "open"
          /\ \E code \in {42, 7}, dresp \in DescribeResponses, io \in IoOutcomes :
             LET d == describe_error([code |-> code, status |-> TRUE, source |-> "X"],
                                     dresp, io)
             IN  /\ exchanges' = d.log
                 /\ rpc_result' = RpcRes("describe_error", d.outcome, Empty, d.text, Empty)
          /\ UNCHANGED <<connection, open_sockets>>

\* The sockets an object still holds open once the program has dropped its
\* last reference to it without closing it: none when the runtime has
\* already collected the object, one while it has not.
Dropped == {0, 1}

\* __enter__: a socket is created and connected; connect may fail, and then
\* the socket is dropped as it is.  A connection the client still held is
\* dropped when self.connection is assigned again.
Enter ==
    /\ ClientFrame
    /\ open_sockets < MaxSockets
    /\ exchanges' = <<>>
    /\ \E connected \in BOOLEAN, left \in Dropped :
          IF connected
          THEN /\ connection' = "open"
               /\ open_sockets' = IF connection = "open"
                                  THEN open_sockets + left
                                  ELSE open_sockets + 1
               /\ rpc_result' = RpcRes("__enter__", "returned", Empty, "", Empty)
          ELSE /\ UNCHANGED connection
               /\ open_sockets' = open_sockets + left
               /\ rpc_result' = RpcRes("__enter__", "socket.error", Empty, "", Empty)

\* __exit__: if self.connection: self.connection.close().
Exit ==
    /\ ClientFrame
    /\ exchanges' = <<>>
    /\ IF connection = "unset"
       THEN /\ UNCHANGED <<connection, open_sockets>>
            /\ rpc_result' = RpcRes("__exit__", "AttributeError", Empty, "", Empty)
       ELSE /\ connection' = "closed"
            /\ open_sockets' = IF connection = "open"
                               THEN open_sockets - 1 ELSE open_sockets
            /\ rpc_result' = RpcRes("__exit__", "returned", Empty, "", Empty)

ClientInit ==
    /\ connection = "unset"
    /\ rpc_result = RpcRes("__init__", "returned", Empty, "", Empty)
    /\ exchanges = <<>>
    /\ open_sockets = 0

ClientNext ==
    \/ Enter
    \/ Exit
    \/ RunViSynchronous
    \/ SetControls
    \/ GetIndicators
    \/ DescribeError

(***************************************************************************)
(* The wire: bytes.  A mapping is here a function from its keys (one       *)
(* character each, held as its code) to values [t, v]: t names the BSON    *)
(* type, v is the list of the value's parts (a truth value as 0 or 1, a    *)
(* number, the codes of a string's characters) or, for "document", the     *)
(* embedded mapping.                                                       *)
(***************************************************************************)
\* Keys per mapping in the mappings enumerated.
MaxElems == 1

Keys == {97, 98}

Scalars ==
    { [t |-> "bool",   v |-> <<1>>],
      [t |-> "int32",  v |-> <<300>>],
      [t |-> "int32",  v |-> <<-1>>],
      [t |-> "string", v |-> <<120>>] }

MappingsOver(V) ==
    UNION { [D -> V] : D \in {K \in SUBSET Keys : Cardinality(K) <= MaxElems} }

Embedded == {[t |-> "document", v |-> d] : d \in MappingsOver(Scalars)}

\* The mappings handed to _send_dict: scalars and one level of embedding,
\* as in {'command': ..., 'error': {...}}.
Msgs == MappingsOver(Scalars \cup Embedded)

TypeByte(t) ==
    CASE t = "string"   -> 2
      [] t = "document" -> 3
      [] t = "bool"     -> 8
      [] t = "int32"    -> 16

\* A 32-bit integer, little-endian, two's complement.
LE32(n) ==
    << n % 256, (n \div 256) % 256, (n \div 65536) % 256, (n \div 16777216) % 256 >>

\* struct.unpack('l', b)[0] of four bytes b: signed, native (little-endian).
Unpack32(b) ==
    b[1] + 256 * b[2] + 65536 * b[3]
         + 16777216 * (IF b[4] >= 128 THEN b[4] - 256 ELSE b[4])

MinOf(S) == CHOOSE x \in S : \A y \in S : x <= y

RECURSIVE EncodeDoc(_), EncodeElems(_, _), EncodeValue(_)

EncodeValue(val) ==
    CASE val.t = "bool"     -> <<val.v[1]>>
      [] val.t = "int32"    -> LE32(val.v[1])
      [] val.t = "string"   -> LE32(Len(val.v) + 1) \o val.v \o <<0>>
      [] val.t = "document" -> EncodeDoc(val.v)

\* The elements of d for the keys ks, in key order: type, name, NUL, value.
EncodeElems(d, ks) ==
    IF ks = {} THEN <<>>
    ELSE LET k == MinOf(ks)
         IN  <<TypeByte(d[k].t), k, 0>> \o EncodeValue(d[k]) \o EncodeElems(d, ks \ {k})

\* bson.BSON.encode(d): the length of the whole document, its elements, NUL.
EncodeDoc(d) ==
    LET body == EncodeElems(d, DOMAIN d)
    IN  LE32(Len(body) + 5) \o body \o <<0>>

Fail == [ok |-> FALSE, doc |-> Empty, next |-> 0]

RECURSIVE ParseDoc(_, _, _), ParseElems(_, _, _)

\* The document that starts at index pos of b and ends by index lim.
ParseDoc(b, pos, lim) ==
    IF pos + 3 > lim THEN Fail
    ELSE LET size == Unpack32(SubSeq(b, pos, pos + 3))
         IN  IF size < 5 \/ pos + size - 1 > lim THEN Fail
             ELSE IF b[pos + size - 1] # 0 THEN Fail
             ELSE LET e == ParseElems(b, pos + 4, pos + size - 2)
                  IN  IF e.ok THEN [ok |-> TRUE, doc |-> e.doc, next |-> pos + size]
                      ELSE Fail

\* The elements in b[i..end].
ParseElems(b, i, end) ==
    IF i > end THEN [ok |-> TRUE, doc |-> Empty, next |-> i]
    ELSE IF i + 2 > end \/ b[i + 2] # 0 THEN Fail
    ELSE LET t == b[i]
             k == b[i + 1]
             val ==
               CASE t = 8 ->
                      IF i + 3 > end \/ b[i + 3] > 1 THEN Fail
                      ELSE [ok |-> TRUE, doc |-> [t |-> "bool", v |-> <<b[i + 3]>>],
                            next |-> i + 4]
                 [] t = 16 ->
                      IF i + 6 > end THEN Fail
                      ELSE [ok |-> TRUE,
                            doc |-> [t |-> "int32", v |-> <<Unpack32(SubSeq(b, i + 3, i + 6))>>],
                            next |-> i + 7]
                 [] t = 2 ->
                      IF i + 6 > end THEN Fail
                      ELSE LET n == Unpack32(SubSeq(b, i + 3, i + 6))
                           IN  IF n < 1 \/ i + 6 + n > end THEN Fail
                               ELSE IF b[i + 6 + n] # 0 THEN Fail
                               ELSE [ok |-> TRUE,
                                     doc |-> [t |-> "string", v |-> SubSeq(b, i + 7, i + 5 + n)],
                                     next |-> i + 7 + n]
                 [] t = 3 ->
                      LET sub == ParseDoc(b, i + 3, end)
                      IN  IF sub.ok
                          THEN [ok |-> TRUE, doc |-> [t |-> "document", v |-> sub.doc],
                                next |-> sub.next]
                          ELSE Fail
                 [] OTHER -> Fail
         IN  IF ~val.ok THEN Fail
             ELSE LET rest == ParseElems(b, val.next, end)
                  IN  IF rest.ok
                      THEN [ok |-> TRUE, doc |-> (k :> val.doc) @@ rest.doc, next |-> rest.next]
                      ELSE Fail

RECURSIVE decode_all(_, _)

\* bson.decode_all(data) from index pos: the documents, or <<Fail>> in front
\* of them when one does not parse (InvalidBSON).
decode_all(data, pos) ==
    IF pos - 1 < Len(data) - 1
    THEN LET d == ParseDoc(data, pos, Len(data))
         IN  IF d.ok THEN <<d>> \o decode_all(data, d.next) ELSE <<Fail>>
    ELSE <<>>

Returned(doc) == [ok |-> TRUE, err |-> "none", doc |-> doc]
Raised(err) == [ok |-> FALSE, err |-> err, doc |-> Empty]

\* return bson.decode_all(packet)[0]
decode_first(data) ==
    LET docs == decode_all(data, 1)
    IN  IF docs = <<>> THEN Raised("IndexError")
        ELSE IF \E j \in 1..Len(docs) : ~docs[j].ok THEN Raised("InvalidBSON")
        ELSE Returned(docs[1].doc)

\* A loop that asks for the whole declared size at each pass.
recv_request_whole(size, have) == size

\* The size _recv_dict asks of connection.recv in its loop.
recv_request(size, have) == size - have

Take(b, n) == SubSeq(b, 1, n)
Drop(b, n) == SubSeq(b, n + 1, Len(b))
MinNum(a, b) == IF a <= b THEN a ELSE b

\* connection.recv(n) on the stream: at least one byte and at most n when
\* bytes remain, none when the transport has closed.
RecvSizes(n) ==
    IF stream = <<>> \/ n <= 0 THEN {0} ELSE 1..MinNum(n, Len(stream))

WireFrame == UNCHANGED <<lifeVars, clientVars>>

\* _send_dict(msg): bson_msg = BSON.encode(msg); connection.send(bson_msg).
\* send takes `written` bytes, its return value, which the code drops.  The
\* transport carries those to the reader and closes, or, the frame being
\* whole, may go on with the first byte of what the peer writes next.
Trailers(n, frame) == IF n = Len(frame) THEN {<<>>, <<5>>} ELSE {<<>>}

SendDict ==
    /\ WireFrame
    /\ wpc = "send"
    /\ \E n \in 1..Len(EncodeDoc(msg)) :
          /\ written' = n
          /\ \E tail \in Trailers(n, EncodeDoc(msg)) :
                stream' = Take(EncodeDoc(msg), n) \o tail
    /\ wpc' = "recv_header"
    /\ UNCHANGED <<msg, packet, packet_size_int, decoded>>

\* packet_size = recv(4); packet_size_int = struct.unpack('l', packet_size)[0]
RecvHeader ==
    /\ WireFrame
    /\ wpc = "recv_header"
    /\ \E k \in RecvSizes(4) :
          /\ stream' = Drop(stream, k)
          /\ IF k = 4
             THEN /\ packet_size_int' = Unpack32(Take(stream, k))
                  /\ packet' = Take(stream, k)
                  /\ wpc' = "recv_body"
                  /\ UNCHANGED decoded
             ELSE \* struct.unpack raises on fewer than four bytes
                  /\ decoded' = Raised("struct.error")
                  /\ wpc' = "done"
                  /\ UNCHANGED <<packet, packet_size_int>>
    /\ UNCHANGED <<msg, written>>

\* One pass of `while len(packet) < packet_size_int`.
RecvBody ==
    /\ WireFrame
    /\ wpc = "recv_body"
    /\ Len(packet) < packet_size_int
    /\ \E k \in RecvSizes(recv_request(packet_size_int, Len(packet))) :
          /\ stream' = Drop(stream, k)
          /\ packet' = packet \o Take(stream, k)
          /\ wpc' = IF k = 0 THEN "decode" ELSE "recv_body"
    /\ UNCHANGED <<msg, written, packet_size_int, decoded>>

\* A _recv_dict that answers a packet it cannot decode with no document.
recv_result_lenient(data) ==
    IF decode_first(data).ok THEN decode_first(data) ELSE Returned(Empty)

\* What _recv_dict returns or raises once its loop has ended.
recv_result(data) == decode_first(data)

Decode ==
    /\ WireFrame
    /\ \/ wpc = "decode"
       \/ wpc = "recv_body" /\ ~(Len(packet) < packet_size_int)
    /\ decoded' = recv_result(packet)
    /\ wpc' = "done"
    /\ UNCHANGED <<msg, written, stream, packet, packet_size_int>>

WireIdle ==
    /\ written = 0
    /\ stream = <<>>
    /\ wpc = "send"
    /\ packet = <<>>
    /\ packet_size_int = 0
    /\ decoded = Raised("none")

WireInit == msg \in Msgs /\ WireIdle

WireNext ==
    \/ SendDict
    \/ RecvHeader
    \/ RecvBody
    \/ Decode

(***************************************************************************)
(* The specifications.                                                     *)
(***************************************************************************)
\* A lifecycle controller with the server enabled, nothing called yet.
LifeIdle == LifeInit /\ server_cfg.start

Init ==
    /\ LifeInit
    /\ ClientInit
    /\ msg = Empty
    /\ WireIdle

Spec == Init /\ [][Next]_vars

InitClient ==
    /\ LifeIdle
    /\ ClientInit
    /\ msg = Empty
    /\ WireIdle

SpecClient == InitClient /\ [][ClientNext]_vars

\* A lifecycle controller constructed with any server arguments, and the
\* operations that launch, end and await the process.
InitLaunch ==
    /\ LifeStart(LaunchConfigs)
    /\ ClientInit
    /\ msg = Empty
    /\ WireIdle

LaunchNext ==
    \/ Start
    \/ Restart
    \/ Kill
    \/ Probe
    \/ ProcExit
    \/ ListenerToggle

SpecLaunch == InitLaunch /\ [][LaunchNext]_vars

\* The lifecycle when the clock advances and every probe comes to an end.
SpecLive == Init /\ [][Next]_vars /\ WF_vars(Probe) /\ WF_vars(Tick)

InitWire ==
    /\ LifeIdle
    /\ ClientInit
    /\ WireInit

SpecWire == InitWire /\ [][WireNext]_vars

(***************************************************************************)
(* The properties checked.                                                 *)
(***************************************************************************)
CheckedOps == {"run_vi_synchronous", "set_controls", "get_indicators"}

\* The response read by the last call, when it read one.
ResponseRead == exchanges[2].doc

\* C1 (SpecClient): when run_vi_synchronous, set_controls or get_indicators
\* reads a response with RunVIState_Status true, RunVIState_Code c and
\* RunVIState_Source s, it does not return: it sends describe_error for the
\* error (c, status, s), and with the 'msg' of the answer raises
\* Error(c, s, msg); only a failure of the socket keeps the describe_error
\* exchange from completing.
C1_ErrorSurfacing ==
    ( /\ rpc_result.op \in CheckedOps
      /\ Len(exchanges) >= 2
      /\ "RunVIState_Status" \in DOMAIN ResponseRead
      /\ ResponseRead["RunVIState_Status"] = TRUE
      /\ "RunVIState_Code" \in DOMAIN ResponseRead
      /\ "RunVIState_Source" \in DOMAIN ResponseRead )
    => /\ rpc_result.outcome # "returned"
       /\ rpc_result.value = Empty
       /\ rpc_result.outcome # "socket.error" => Len(exchanges) = 4
       /\ Len(exchanges) >= 3
             => exchanges[3] =
                   Sent([command |-> "describe_error",
                         error   |-> [code   |-> ResponseRead["RunVIState_Code"],
                                      status |-> TRUE,
                                      source |-> ResponseRead["RunVIState_Source"]]])
       /\ (Len(exchanges) = 4 /\ "msg" \in DOMAIN exchanges[4].doc)
             => /\ exchanges[4].dir = "recv"
                /\ rpc_result.outcome = "Error"
                /\ rpc_result.error =
                      [code    |-> ResponseRead["RunVIState_Code"],
                       source  |-> ResponseRead["RunVIState_Source"],
                       message |-> exchanges[4].doc["msg"]]

C1_Witness ==
    /\ rpc_result.op = "set_controls"
    /\ rpc_result.outcome = "Error"
    /\ rpc_result.error = [code |-> 42, source |-> "X", message |-> "m2"]
    /\ Len(exchanges) = 4

\* C2 (SpecClient): a response without RunVIState_Status is returned as it
\* is by run_vi_synchronous, set_controls and get_indicators, whatever else
\* it holds; nothing is raised and no describe_error is exchanged.
C2_NoStatusSuccess ==
    ( /\ rpc_result.op \in CheckedOps
      /\ Len(exchanges) >= 2
      /\ "RunVIState_Status" \notin DOMAIN ResponseRead )
    => /\ rpc_result.outcome = "returned"
       /\ rpc_result.value = ResponseRead
       /\ rpc_result.error = Empty
       /\ Len(exchanges) = 2

C2_Witness ==
    /\ rpc_result.op = "get_indicators"
    /\ rpc_result.outcome = "returned"
    /\ "RunVIState_Status" \notin DOMAIN rpc_result.value
    /\ "RunVIState_Code" \in DOMAIN rpc_result.value
    /\ "RunVIState_Source" \in DOMAIN rpc_result.value
    /\ Len(exchanges) = 2

\* C3 (SpecWire): when the transport closes before _recv_dict holds the
\* number of bytes the header declares, _recv_dict raises and returns no
\* document.
C3_Truncation ==
    ( /\ wpc = "done"
      /\ Len(packet) >= 4
      /\ Len(packet) < packet_size_int )
    => /\ ~decoded.ok
       /\ decoded.err = "InvalidBSON"
       /\ decoded.doc = Empty

C3_Witness ==
    /\ wpc = "done"
    /\ Len(packet) > 4
    /\ Len(packet) < packet_size_int
    /\ decoded = Raised("InvalidBSON")
    /\ msg # Empty

\* C4 (SpecWire): the frame _send_dict writes for a mapping, delivered whole
\* and read in any pieces after its header, is decoded to that mapping; the
\* loop holds exactly the declared number of bytes when it ends, and never
\* more on the way, also when more bytes are there to be read.
C4_RoundTrip ==
    /\ wpc \in {"recv_body", "decode", "done"} /\ Len(packet) >= 4
          => Len(packet) <= packet_size_int
    /\ ( /\ wpc = "done"
         /\ written = Len(EncodeDoc(msg))
         /\ Len(packet) >= 4 )
       => /\ decoded = Returned(msg)
          /\ packet_size_int = Len(EncodeDoc(msg))
          /\ packet = EncodeDoc(msg)

C4_Witness ==
    /\ wpc = "done"
    /\ decoded = Returned(msg)
    /\ \E k \in DOMAIN msg : msg[k].t = "document" /\ msg[k].v # Empty
    /\ stream # <<>>

\* The tracked pid names a process that exists, whose executable is the
\* tracked one up to case, and that is running.
Tracked(P, pid) ==
    /\ pid \in Pids
    /\ P[pid].state = "running"
    /\ Lower(P[pid].exe) = Lower(executable)

\* C5 (Spec): client() raises NotStartedError when the process is not
\* running (the pid being None included) and when the server is disabled;
\* it returns a LabVIEWClient exactly when the process is running and the
\* server enabled; it opens no connection.
C5_ClientNeedsRunningServer ==
    last = "Client"
    => /\ result.outcome = "NotStartedError"
             <=> (~Tracked(procs, _pid) \/ ~server_cfg.start)
       /\ (result.outcome = "ok" /\ result.ret = "LabVIEWClient")
             <=> (Tracked(procs, _pid) /\ server_cfg.start)
       /\ attempts = 0 /\ opened = 0 /\ closed = 0

C5_Witness ==
    /\ last = "Client"
    /\ result.outcome = "NotStartedError"
    /\ Tracked(procs, _pid)
    /\ ~server_cfg.start

\* C6 (Spec): is_running() is true iff a process with the tracked pid
\* exists, its executable equals the tracked one ignoring case, and it is
\* running; so it is false for a pid that is None and for a pid that now
\* belongs to another executable.
C6_IsRunningIffMatched ==
    last = "IsRunning"
    => /\ result.ret = "True"
             <=> /\ _pid # None
                 /\ procs[_pid].state = "running"
                 /\ Lower(procs[_pid].exe) = Lower(executable)
       /\ result.ret \in {"True", "False"}

C6_Witness ==
    /\ last = "IsRunning"
    /\ result.ret = "False"
    /\ _pid # None
    /\ procs[_pid].state = "running"
    /\ procs[_pid].exe.dir = "C:\\LV2"

\* C7 (Spec): a kill() that follows a kill(), and a kill() when no process
\* matches the tracked pid and executable, does not raise, kills no process
\* and leaves the tracked pid None.
C7_IdempotentKill ==
    [][ ( /\ last' = "Kill"
          /\ \/ last = "Kill"
             \/ ~(_pid \in Pids /\ procs[_pid].state = "running"
                                /\ Lower(procs[_pid].exe) = Lower(executable)) )
        => /\ result'.outcome = "ok"
           /\ killed' = {}
           /\ _pid' = None ]_vars

\* C8 (Spec): kill(timeout) leaves the tracked pid None on every path, and
\* does not raise when the process has not gone within the timeout.
C8_KillClearsPid ==
    last = "Kill" => (_pid = None /\ result.outcome = "ok")

\* C9 (Spec): the wait of start(wait_until_open=True, timeout_s=T) is entered
\* with the server enabled only; a probe that fails when more than T has
\* passed since the wait began ends it with TimeoutError, a probe that fails
\* earlier does not end it, and TimeoutError is raised in no other way.
C9_ReadinessTimeout ==
    [][ (pc = "waiting" /\ last' = "Probe")
        => /\ server_cfg.start
           /\ opened' = opened
                 => IF clock - start_time > timeout_s
                    THEN /\ pc' = "idle"
                         /\ result' = Res(caller, "TimeoutError", "None")
                    ELSE /\ pc' = "waiting"
                         /\ result' = Res(caller, "waiting", "None")
           /\ result'.outcome = "TimeoutError"
                 => opened' = opened /\ clock - start_time > timeout_s ]_vars

C9_Witness ==
    /\ last = "Probe"
    /\ result = Res("start", "TimeoutError", "None")
    /\ attempts >= 1
    /\ opened = 0

\* C10 (Spec): start() when is_running() spawns nothing and keeps the pid;
\* with the server enabled it makes one connection attempt, closes the
\* connection if it got one and lets a failure through at once; with the
\* server disabled it opens no connection.
C10_StartWhenRunning ==
    [][ (last' = "Start" /\ Tracked(procs, _pid))
        => /\ spawned' = {}
           /\ procs' = procs
           /\ _pid' = _pid
           /\ pc' = "idle"
           /\ IF server_cfg.start
              THEN /\ attempts' = 1
                   /\ closed' = opened'
                   /\ IF listening
                      THEN opened' = 1 /\ result' = Res("start", "ok", "None")
                      ELSE opened' = 0 /\ result' = Res("start", "ConnectionError", "None")
              ELSE /\ attempts' = 0
                   /\ opened' = 0
                   /\ closed' = 0
                   /\ result' = Res("start", "ok", "None") ]_vars

C10_Witness ==
    /\ last = "Start"
    /\ Tracked(procs, _pid)
    /\ spawned = {}
    /\ attempts = 1
    /\ opened = 1
    /\ closed = 1
    /\ result = Res("start", "ok", "None")

\* The processes start_with_args can discover: those named "LabVIEW.exe".
Discoverable(P) ==
    {p \in Pids : P[p].state = "running" /\ P[p].exe.name = "LabVIEW.exe"}

\* C11 (Spec): start() when not is_running() and a process named
\* "LabVIEW.exe" is discoverable makes that process's pid the tracked pid
\* and spawns nothing, with the server enabled and with it disabled.
C11_AdoptionWithoutLaunch ==
    [][ ( /\ last' = "Start"
          /\ ~Tracked(procs, _pid)
          /\ Discoverable(procs) # {} )
        => /\ spawned' = {}
           /\ _pid' \in Discoverable(procs) ]_vars

\* C12 (Spec): start() when not is_running() and no process is discoverable
\* spawns exactly one process, and the tracked pid is then that process's
\* pid, whatever the tracked pid was before (None, or the pid of a process
\* that has exited).
C12_LaunchCapturesPid ==
    [][ ( /\ last' = "Start"
          /\ ~Tracked(procs, _pid)
          /\ Discoverable(procs) = {} )
        => /\ Cardinality(spawned') = 1
           /\ _pid' \in spawned'
           /\ procs'[_pid'].state = "running" ]_vars

\* C13 (Spec): restart() kills first when the process is running and then
\* always starts, also when the kill did not see the process go within its
\* timeout; when the process is not running it starts without a kill.
C13_RestartAlwaysStarts ==
    [][ last' = "Restart"
        => /\ killed' = (IF Tracked(procs, _pid) THEN {_pid} ELSE {})
           /\ result'.op = "restart"
           /\ result'.outcome \in {"ok", "waiting", "ConnectionError"} ]_vars

\* The process the last start launched is still there, running the tracked
\* executable.
LaunchedRunning ==
    /\ spawned # {}
    /\ \A p \in spawned : /\ procs[p].state = "running"
                          /\ Lower(procs[p].exe) = Lower(executable)

\* C14 (Spec): with the server enabled, a probe of the wait of
\* start(wait_until_open=True, timeout_s) made before timeout_s has passed,
\* while the launched process is running and the listener accepts, ends the
\* wait normally: start returns and no TimeoutError follows.
C14_ReadinessSuccess ==
    [][ ( /\ pc = "waiting"
          /\ last' = "Probe"
          /\ server_cfg.start
          /\ listening
          /\ LaunchedRunning
          /\ clock - start_time <= timeout_s )
        => /\ pc' = "idle"
           /\ result' = Res(caller, "ok", "None") ]_vars

\* C17 (Spec): the wait absorbs a failed connection attempt only; a probe
\* that finds the process not running (client() raises NotStartedError) ends
\* the wait with that NotStartedError, never with a retry or a TimeoutError.
C17_NotStartedPropagates ==
    [][ ( /\ pc = "waiting"
          /\ last' = "Probe"
          /\ ~Tracked(procs, _pid) )
        => /\ pc' = "idle"
           /\ result' = Res(caller, "NotStartedError", "None") ]_vars

\* C15 (SpecClient): every socket a session creates is closed when the
\* session ends: __exit__ closes the connection of the session (after a body
\* that returned or raised alike), and an __enter__ whose connect failed
\* leaves no socket open.
C15_ConnectionRelease ==
    [][ /\ (rpc_result'.op = "__enter__" /\ rpc_result'.outcome # "returned")
              => open_sockets' = open_sockets
        /\ (rpc_result'.op = "__exit__" /\ connection = "open")
              => /\ rpc_result'.outcome = "returned"
                 /\ connection' = "closed"
                 /\ open_sockets' = open_sockets - 1 ]_vars

AllOps == CheckedOps \cup {"describe_error"}

\* C16 (SpecClient): describe_error returns the 'msg' of its response
\* whatever status fields the response carries, and a failing run / set /
\* get call holds one describe_error exchange, never a second one.
C16_DescribeUnchecked ==
    /\ ( /\ rpc_result.op = "describe_error"
         /\ Len(exchanges) = 2
         /\ "msg" \in DOMAIN exchanges[2].doc )
       => /\ rpc_result.outcome = "returned"
          /\ rpc_result.text = exchanges[2].doc["msg"]
    /\ rpc_result.op \in CheckedOps
       => /\ Len(exchanges) <= 4
          /\ \A i \in DOMAIN exchanges :
                (exchanges[i].dir = "send" /\ exchanges[i].doc["command"] = "describe_error")
                   => i = 3
          /\ ( /\ Len(exchanges) = 4
               /\ "msg" \in DOMAIN exchanges[4].doc )
             => /\ rpc_result.outcome = "Error"
                /\ "message" \in DOMAIN rpc_result.error
                /\ rpc_result.error["message"] = exchanges[4].doc["msg"]

C16_Witness ==
    /\ rpc_result.op = "describe_error"
    /\ rpc_result.outcome = "returned"
    /\ rpc_result.text = "m1"
    /\ Len(exchanges) = 2
    /\ "RunVIState_Status" \in DOMAIN exchanges[2].doc
    /\ exchanges[2].doc["RunVIState_Status"] = TRUE

\* C20 (SpecClient): each of the four calls writes once and reads once, in
\* that order; run / set / get add one describe_error write and read, after
\* a response with status true has been read, and only then; a write or a
\* read that fails ends the call with the socket's exception, and the
\* request is not written again.
C20_OneExchangePerCall ==
    rpc_result.op \in AllOps
    => /\ Len(exchanges) <= (IF rpc_result.op = "describe_error" THEN 2 ELSE 4)
       /\ \A i \in DOMAIN exchanges :
             exchanges[i].dir = (IF i % 2 = 1 THEN "send" ELSE "recv")
       /\ Len(exchanges) >= 3
             => /\ "RunVIState_Status" \in DOMAIN exchanges[2].doc
                /\ exchanges[2].doc["RunVIState_Status"] = TRUE
                /\ exchanges[3].doc["command"] = "describe_error"
                /\ exchanges[1].doc["command"] # "describe_error"
       /\ Len(exchanges) % 2 = 1 => rpc_result.outcome = "socket.error"
       /\ Len(exchanges) = 0 => rpc_result.outcome \in {"socket.error", "AttributeError"}
       /\ rpc_result.outcome = "returned" => Len(exchanges) = 2

C20_Witness ==
    /\ rpc_result.op = "get_indicators"
    /\ rpc_result.outcome = "socket.error"
    /\ connection = "open"
    /\ Len(exchanges) = 3

\* C18 (SpecWire): _recv_dict has the four header bytes before it reads the
\* declared length, also when the transport hands them over in pieces; a
\* frame delivered whole gives the same document however its header was
\* split.
C18_HeaderRead ==
    /\ wpc \in {"recv_body", "decode"} => Len(packet) >= 4
    /\ (wpc = "done" /\ written = Len(EncodeDoc(msg)))
          => decoded = Returned(msg)

\* C19 (SpecWire): all bytes of the encoded frame have been written to the
\* connection when _send_dict is left and the response is read, also when
\* send takes only a part of the buffer.
C19_CompleteWrite ==
    wpc # "send" => written = Len(EncodeDoc(msg))

\* C21 (SpecClient): documents are written and read only while the client
\* is connected; __exit__ does not raise in any state, before a connect and
\* after an __exit__ included, and leaves the client disconnected.
C21_ClientStateMachine ==
    /\ Len(exchanges) > 0 => connection = "open"
    /\ rpc_result.op = "__exit__"
          => /\ rpc_result.outcome = "returned"
             /\ connection # "open"

\* C22 (SpecLaunch): with the server enabled the command line of a launch is
\* the executable, the listener VI, '-pref', the ini file, '--', '--port'
\* and the port, '--timeout' and tcp_timeout_s * 1000, then '--reportfile'
\* and log_path iff log_path is not None, then '--errorfile' and
\* error_log_path iff error_log_path is not None; with the server disabled
\* it is the executable, '-pref', the ini file.
C22_LaunchArguments ==
    LET port    == CASE server_cfg.port = 2552 -> "2552" [] server_cfg.port = 80 -> "80"
        timeout == CASE server_cfg.tcp_timeout_s = 60 -> "60000"
                     [] server_cfg.tcp_timeout_s = 1 -> "1000"
        report  == IF server_cfg.log_path = "None" THEN <<>>
                   ELSE <<"--reportfile", server_cfg.log_path>>
        errors  == IF server_cfg.error_log_path = "None" THEN <<>>
                   ELSE <<"--errorfile", server_cfg.error_log_path>>
    IN  /\ spawned = {} => cmdline = <<>>
        /\ (spawned # {} /\ server_cfg.start)
              => cmdline = <<"C:\\LV\\LabVIEW.exe", "Splash Screen.vi", "-pref", "tmp.ini",
                             "--", "--port", port, "--timeout", timeout>>
                           \o report \o errors
        /\ (spawned # {} /\ ~server_cfg.start)
              => cmdline = <<"C:\\LV\\LabVIEW.exe", "-pref", "tmp.ini">>

C22_Witness ==
    /\ last = "Start"
    /\ spawned # {}
    /\ cmdline = <<"C:\\LV\\LabVIEW.exe", "Splash Screen.vi", "-pref", "tmp.ini",
                   "--", "--port", "80", "--timeout", "1000",
                   "--reportfile", "r.log", "--errorfile", "e.log">>

\* C23 (Spec): the tracked pid is None after construction, is one pid or
\* None at every moment, and changes only in a start that launches (or
\* adopts), in kill, and in restart, which is the two; is_running,
\* memory_usage, client, the probes of the wait and the host leave it alone.
C23_PidFrame ==
    /\ _pid = None
    /\ [](_pid \in Pids \cup {None})
    /\ [][ _pid' # _pid
           => /\ last' \in {"Start", "Restart", "Kill"}
              /\ last' = "Start" => (~Tracked(procs, _pid) /\ spawned' # {})
              /\ last' = "Kill" => _pid' = None ]_vars

C23_Witness ==
    /\ last = "Start"
    /\ spawned # {}
    /\ _pid \in Pids
    /\ _pid \notin spawned
    /\ procs[_pid].state = "running"
    /\ procs[_pid].exe.dir = "C:\\LV2"

\* C24 (SpecLive): when the clock advances and every probe comes to an end,
\* wait_until_server_loaded ends; it ends only in a probe, either one that
\* connected (it returns) or one that failed after more than timeout_s had
\* passed since the wait began (it raises TimeoutError).
C24_WaitTerminates ==
    /\ (pc = "waiting") ~> (pc = "idle")
    /\ [][ (pc = "waiting" /\ pc' = "idle")
           => /\ last' = "Probe"
              /\ \/ /\ result' = Res(caller, "ok", "None")
                    /\ opened' = opened + 1
                    /\ closed' = closed + 1
                 \/ /\ result' = Res(caller, "TimeoutError", "None")
                    /\ opened' = opened
                    /\ clock - start_time > timeout_s ]_vars

C24_Witness ==
    /\ last = "Probe"
    /\ pc = "idle"
    /\ result = Res("restart", "ok", "None")
    /\ attempts >= 2
    /\ opened = 1

\* C25 (Spec): a start (or restart) that waited returns normally only from a
\* probe that opened and closed a connection while is_running() held for the
\* tracked pid; a start that finds the instance running with the server
\* enabled returns normally after one connection opened and closed; a fresh
\* launch, before any wait, and every start with the server disabled have
\* opened no connection.
C25_WaitedStartPostcondition ==
    [][ /\ (pc = "waiting" /\ pc' = "idle" /\ result'.outcome = "ok")
              => /\ server_cfg.start
                 /\ last' = "Probe"
                 /\ opened' >= 1
                 /\ closed' = opened'
                 /\ listening
                 /\ Tracked(procs, _pid)
        /\ (last' \in {"Start", "Restart"} /\ spawned' # {})
              => attempts' = 0 /\ opened' = 0 /\ closed' = 0
        /\ (last' \in {"Start", "Restart"} /\ ~server_cfg.start)
              => attempts' = 0 /\ opened' = 0 /\ closed' = 0
        /\ (last' \in {"Start", "Restart"} /\ spawned' = {} /\ server_cfg.start
               /\ result'.outcome = "ok")
              => opened' = 1 /\ closed' = 1 /\ Tracked(procs, _pid) ]_vars

C25_Witness ==
    /\ last = "Probe"
    /\ pc = "idle"
    /\ result = Res("start", "ok", "None")
    /\ attempts = 1
    /\ opened = 1
    /\ closed = 1
    /\ Tracked(procs, _pid)

====
